---- MODULE Spec2Model ----
(***************************************************************************)
(* PySchedule (src/pyschedule/Tasks.py): the task / dependency time        *)
(* resolution engine.  A Task is a dict with the stored fields start, end, *)
(* duration, a list of dependencies and a list of child Tasks; a           *)
(* Dependency is a dict {task, type}.  Instants and durations are          *)
(* integers (days); None is the Python None; a Python exception that       *)
(* leaves a getter is the value Raised.                                    *)
(***************************************************************************)
EXTENDS Integers, Sequences, FiniteSets, TLC

VARIABLES tasks, last

vars == <<tasks, last>>

-----------------------------------------------------------------------------
(* Bounds of the model *)

\* largest instant / duration a Task is constructed with
MaxTime == 1
\* number of start/end/duration fields given a value at construction
MaxStored == 3
\* largest absolute instant a propagation may store (caps cyclic growth)
MaxVal == 4

\* the Task objects of the model
TaskIds == {1, 2, 3}
\* the dependency entries the tasks hold together
DepSlots == {1, 2}

-----------------------------------------------------------------------------
(* Values *)

\* a Task constructed without an 'id' entry
NoId == ""

None == [k |-> "None", v |-> 0]
Raised == [k |-> "TypeError", v |-> 0]
At(n) == [k |-> "val", v |-> n]

IsVal(x) == x.k = "val"

SeqToSet(s) == {s[i] : i \in DOMAIN s}

\* the smallest / largest element of a non-empty set of integers
MinOf(S) == CHOOSE m \in S : \A x \in S : m <= x
MaxOf(S) == CHOOSE m \in S : \A x \in S : m >= x

-----------------------------------------------------------------------------
(* Task.get_start / get_end / get_duration and the properties *)

\* np.argmin over the children's starts: comparing None with a datetime raises
ArgMinChildTimes(child_times) ==
    IF \E i \in DOMAIN child_times : child_times[i] = None
    THEN Raised
    ELSE At(MinOf({child_times[i].v : i \in DOMAIN child_times}))

\* np.argmax over the children's ends that are not None
ArgMaxChildTimes(child_times) ==
    At(MaxOf({child_times[i].v : i \in DOMAIN child_times}))

RECURSIVE get_start(_, _, _), get_end(_, _, _)

\* a get_duration that forgets the stored duration unless asked to calculate
get_duration_unstored(T, t, calc_flg) ==
    IF calc_flg THEN T[t].duration ELSE None

get_duration(T, t, calc_flg) ==
    LET dur == T[t].duration IN
    IF dur # None THEN dur
    ELSE IF calc_flg
    THEN LET end == get_end(T, t, FALSE) IN
         IF end = Raised THEN Raised
         ELSE LET start == get_start(T, t, FALSE) IN
              IF start = Raised THEN Raised
              ELSE IF end # None /\ start # None
                   THEN At(end.v - start.v)
                   ELSE None
    ELSE dur

get_start(T, t, calc_flg) ==
    LET start == T[t].start
        children == T[t].children
        child_times == [i \in DOMAIN children |-> get_start(T, children[i], TRUE)]
    IN
    IF start # None THEN start
    ELSE IF \E i \in DOMAIN children : child_times[i] = Raised THEN Raised
    ELSE IF children # <<>> /\ \E i \in DOMAIN children : child_times[i] # None
    THEN ArgMinChildTimes(child_times)
    ELSE IF calc_flg
    THEN LET end == get_end(T, t, FALSE) IN
         IF end = Raised THEN Raised
         ELSE LET dur == get_duration(T, t, FALSE) IN
              IF end # None /\ dur # None
              THEN At(end.v - dur.v)
              ELSE None
    ELSE start

get_end(T, t, calc_flg) ==
    LET end == T[t].end
        children == T[t].children
        child_ends == [i \in DOMAIN children |-> get_end(T, children[i], TRUE)]
        child_times == SelectSeq(child_ends, LAMBDA x : x # None)
    IN
    IF end # None THEN end
    ELSE IF \E i \in DOMAIN children : child_ends[i] = Raised THEN Raised
    ELSE IF child_times # <<>>
    THEN ArgMaxChildTimes(child_times)
    ELSE IF calc_flg
    THEN LET start == get_start(T, t, FALSE) IN
         IF start = Raised THEN Raised
         ELSE LET dur == get_duration(T, t, FALSE) IN
              IF start # None /\ dur # None
              THEN At(start.v + dur.v)
              ELSE None
    ELSE end

\* the properties Task.start, Task.end, Task.duration
start_(T, t) == get_start(T, t, TRUE)
end_(T, t) == get_end(T, t, TRUE)
duration_(T, t) == get_duration(T, t, TRUE)

-----------------------------------------------------------------------------
(* Task.verify *)

\* the getters called with the calculation on
sed_vals_calc(T, t) ==
    <<get_start(T, t, TRUE), get_end(T, t, TRUE), get_duration(T, t, TRUE)>>

\* the getters verify() calls, with the calc_flg it passes
sed_vals(T, t) ==
    <<get_start(T, t, FALSE), get_end(T, t, FALSE), get_duration(T, t, FALSE)>>

\* a verify() that lets two missing values pass
verify_lenient(T, t) ==
    IF \E i \in 1..3 : sed_vals(T, t)[i] = Raised THEN "TypeError"
    ELSE IF Cardinality({i \in 1..3 : sed_vals(T, t)[i] = None}) < 1
    THEN "Overdefined"
    ELSE IF Cardinality({i \in 1..3 : sed_vals(T, t)[i] = None}) > 2
    THEN "Underdefined"
    ELSE "ok"

\* a verify() that asks for two missing values
verify_strict(T, t) ==
    IF \E i \in 1..3 : sed_vals(T, t)[i] = Raised THEN "TypeError"
    ELSE IF Cardinality({i \in 1..3 : sed_vals(T, t)[i] = None}) < 2
    THEN "Overdefined"
    ELSE IF Cardinality({i \in 1..3 : sed_vals(T, t)[i] = None}) > 2
    THEN "Underdefined"
    ELSE "ok"

\* the outcome of verify(): "ok" when it returns, else the exception raised
verify(T, t) ==
    LET sv == sed_vals(T, t)
        num_nuns == Cardinality({i \in 1..3 : sv[i] = None})
    IN
    IF \E i \in 1..3 : sv[i] = Raised THEN "TypeError"
    ELSE IF num_nuns < 1 THEN "Overdefined"
    ELSE IF num_nuns > 1 THEN "Underdefined"
    ELSE "ok"

-----------------------------------------------------------------------------
(* Dependency *)

allowed_types ==
    {"startsBefore", "startsWith", "startsAfter",
     "endsBefore", "endsWith", "endsAfter"}

\* a Dependency object {task, type}; task is the Task depended on
DependencyObject(task, type) ==
    [cls |-> "Dependency", task |-> task, key |-> "", type |-> type]

\* a plain record {'task': key, 'type': type} naming its task by id or name
DependencyRecord(key, type) ==
    [cls |-> "dict", task |-> 0, key |-> key, type |-> type]

\* a constructor that accepts every type
Dependency_unchecked(task, type) ==
    [exc |-> "ok", obj |-> DependencyObject(task, type)]

\* Dependency.__init__: the object, or the exception for a type not allowed
Dependency(task, type) ==
    IF type \notin allowed_types
    THEN [exc |-> "NotAllowedType", obj |-> <<>>]
    ELSE [exc |-> "ok", obj |-> DependencyObject(task, type)]

\* a startsAfter that hands over the target's start
_startsAfter_start(T, task) == [field |-> "start", value |-> start_(T, task)]

_startsBefore(T, task) == [field |-> "start", value |-> start_(T, task)]
_startsWith(T, task) == [field |-> "start", value |-> start_(T, task)]
_startsAfter(T, task) == [field |-> "start", value |-> end_(T, task)]
_endsBefore(T, task) == [field |-> "end", value |-> start_(T, task)]
_endsWith(T, task) == [field |-> "end", value |-> end_(T, task)]
_endsAfter(T, task) == [field |-> "end", value |-> end_(T, task)]

\* Dependency.get_dependency: the one-entry dict {field: value}; value is
\* Raised when reading the task's time raises, or when getattr finds no
\* method of the type's name
get_dependency(T, d) ==
    CASE d.type = "startsBefore" -> _startsBefore(T, d.task)
      [] d.type = "startsWith" -> _startsWith(T, d.task)
      [] d.type = "startsAfter" -> _startsAfter(T, d.task)
      [] d.type = "endsBefore" -> _endsBefore(T, d.task)
      [] d.type = "endsWith" -> _endsWith(T, d.task)
      [] d.type = "endsAfter" -> _endsAfter(T, d.task)
      [] OTHER -> [field |-> "AttributeError", value |-> Raised]

-----------------------------------------------------------------------------
(* Task.update_from_dependencies *)

\* a key the dict dvals does not hold
Unset == [k |-> "unset", v |-> 0]

\* dvals = {}
EmptyDvals == [start |-> Unset, end |-> Unset]

\* a dvals.update that files every item under 'end'
DvalsUpdate_end(dvals, item) == [dvals EXCEPT !.end = item.value]

\* a dvals.update that keeps the value a key already has
DvalsUpdate_first(dvals, item) ==
    IF item.field = "start"
    THEN [dvals EXCEPT !.start = IF @ = Unset THEN item.value ELSE @]
    ELSE [dvals EXCEPT !.end = IF @ = Unset THEN item.value ELSE @]

\* dvals.update(d.get_dependency())
DvalsUpdate(dvals, item) ==
    IF item.field = "start"
    THEN [dvals EXCEPT !.start = item.value]
    ELSE [dvals EXCEPT !.end = item.value]

\* an update that adds a start to the stored one instead of replacing it
TaskUpdate_accumulate(T, t, dvals) ==
    [T EXCEPT ![t].start = IF dvals.start = Unset THEN @
                           ELSE IF IsVal(@) /\ IsVal(dvals.start)
                           THEN At(@.v + dvals.start.v)
                           ELSE dvals.start,
              ![t].end = IF dvals.end = Unset THEN @ ELSE dvals.end]

\* self.update(dvals): every key dvals holds overwrites the stored field
TaskUpdate(T, t, dvals) ==
    [T EXCEPT ![t].start = IF dvals.start = Unset THEN @ ELSE dvals.start,
              ![t].end = IF dvals.end = Unset THEN @ ELSE dvals.end]

\* one turn of the loop: the dict item of a Dependency joins dvals, a
\* raised read ends the loop
RECURSIVE EvalDependencies(_, _, _, _, _)
EvalItem(T, t, i, dvals, checked, item) ==
    IF item.value = Raised
    THEN [exc |-> "TypeError", dvals |-> dvals]
    ELSE EvalDependencies(T, t, i + 1, DvalsUpdate(dvals, item), checked)

\* the loop over self['dependencies'] from entry i on; the first loop checks
\* isinstance(d, Dependency), the second calls get_dependency unchecked
EvalDependencies(T, t, i, dvals, checked) ==
    IF i > Len(T[t].dependencies) THEN [exc |-> "ok", dvals |-> dvals]
    ELSE IF T[t].dependencies[i].cls # "Dependency"
    THEN [exc |-> IF checked THEN "TypeError: not a Dependency"
                  ELSE "AttributeError",
          dvals |-> dvals]
    ELSE EvalItem(T, t, i, dvals, checked,
                  get_dependency(T, T[t].dependencies[i]))

RECURSIVE update_from_dependencies(_, _, _, _), UpdateChildren(_, _, _)

\* self.update(dvals) of the second loop, then verify() when asked
SecondUpdate(T, t, verify_flg, r2) ==
    IF r2.exc # "ok" THEN [T |-> T, exc |-> r2.exc]
    ELSE [T |-> TaskUpdate(T, t, r2.dvals),
          exc |-> IF verify_flg THEN verify(TaskUpdate(T, t, r2.dvals), t)
                  ELSE "ok"]

\* after the children, the dvals of the first loop are stored again without
\* evaluating the dependencies a second time
AfterChildren_once(t, verify_flg, dvals, rc) ==
    IF rc.exc # "ok" THEN rc
    ELSE SecondUpdate(rc.T, t, verify_flg, [exc |-> "ok", dvals |-> dvals])

\* after the children: the dependencies are evaluated again into dvals
AfterChildren(t, verify_flg, dvals, rc) ==
    IF rc.exc # "ok" THEN rc
    ELSE SecondUpdate(rc.T, t, verify_flg,
                      EvalDependencies(rc.T, t, 1, dvals, FALSE))

\* self.update(dvals) of the first loop, then the children
FirstUpdate(T, t, verify_flg, update_children, r1) ==
    IF r1.exc # "ok" THEN [T |-> T, exc |-> r1.exc]
    ELSE AfterChildren(t, verify_flg, r1.dvals,
            IF update_children
            THEN UpdateChildren(TaskUpdate(T, t, r1.dvals), T[t].children, 1)
            ELSE [T |-> TaskUpdate(T, t, r1.dvals), exc |-> "ok"])

\* the result of t.update_from_dependencies(verify, update_children): the
\* tasks as the call leaves them and "ok" or the exception that ended it
update_from_dependencies(T, t, verify_flg, update_children) ==
    FirstUpdate(T, t, verify_flg, update_children,
                EvalDependencies(T, t, 1, EmptyDvals, TRUE))

\* a loop over the children that goes on after a child's update has raised
ChildUpdated_caught(children, i, r) == UpdateChildren(r.T, children, i + 1)

\* the rest of the loop over the children once child i has been updated
ChildUpdated(children, i, r) ==
    IF r.exc # "ok" THEN r ELSE UpdateChildren(r.T, children, i + 1)

\* for c in self['children']: c.update_from_dependencies(False, True)
UpdateChildren(T, children, i) ==
    IF i > Len(children) THEN [T |-> T, exc |-> "ok"]
    ELSE ChildUpdated(children, i,
                      update_from_dependencies(T, children[i], FALSE, TRUE))

\* Task.add_dependency(dep, update)
add_dependency(T, t, dep, update) ==
    IF update
    THEN update_from_dependencies(
             [T EXCEPT ![t].dependencies = Append(@, dep)], t, TRUE, TRUE)
    ELSE [T |-> [T EXCEPT ![t].dependencies = Append(@, dep)], exc |-> "ok"]

-----------------------------------------------------------------------------
(* load_dependencies *)

RECURSIVE _unpack_children(_, _), UnpackEach(_, _, _)

\* Task._unpack_children: the children, then each child's own unpacking
_unpack_children(T, t) ==
    T[t].children \o UnpackEach(T, T[t].children, 1)

UnpackEach(T, children, i) ==
    IF i > Len(children) THEN <<>>
    ELSE _unpack_children(T, children[i]) \o UnpackEach(T, children, i + 1)

\* tl_in: every task of the list followed by its descendants
RECURSIVE WorkingSet(_, _, _)
WorkingSet(T, task_list, i) ==
    IF i > Len(task_list) THEN <<>>
    ELSE <<task_list[i]>> \o _unpack_children(T, task_list[i])
            \o WorkingSet(T, task_list, i + 1)

\* t.get('id', t.get('name', None))
TaskKey(T, t) == IF T[t].id # NoId THEN T[t].id ELSE T[t].name

\* a lookup that matches every index
WhereKey_any(tl_ids, key) == DOMAIN tl_ids

\* np.where(np.array(tl_ids) == key)[0]
WhereKey(tl_ids, key) == {i \in DOMAIN tl_ids : tl_ids[i] = key}

\* tl_in[k]['dependencies'][i] = Dependency(dep_task, dep['type'])
RECURSIVE LinkDependencies(_, _, _, _, _)
LinkMade(T, tl_in, tl_ids, k, i, made) ==
    IF made.exc # "ok" THEN [T |-> T, exc |-> made.exc]
    ELSE LinkDependencies(
             [T EXCEPT ![tl_in[k]].dependencies[i] = made.obj],
             tl_in, tl_ids, k, i + 1)

\* a record is looked up by its key among tl_ids; the first match is taken
LinkRecord(T, tl_in, tl_ids, k, i, dep, dep_task_idx) ==
    IF dep_task_idx = {} THEN [T |-> T, exc |-> "NotFound"]
    ELSE LinkMade(T, tl_in, tl_ids, k, i,
                  Dependency(tl_in[MinOf(dep_task_idx)], dep.type))

\* the loop over the dependencies of tl_in[k] from entry i on
LinkDependencies(T, tl_in, tl_ids, k, i) ==
    IF i > Len(T[tl_in[k]].dependencies) THEN [T |-> T, exc |-> "ok"]
    ELSE IF T[tl_in[k]].dependencies[i].cls = "Dependency"
    THEN LinkDependencies(T, tl_in, tl_ids, k, i + 1)
    ELSE LinkRecord(T, tl_in, tl_ids, k, i, T[tl_in[k]].dependencies[i],
                    WhereKey(tl_ids, T[tl_in[k]].dependencies[i].key))

\* the loop over tl_in from entry k on
RECURSIVE LinkTasks(_, _, _, _)
TaskLinked(tl_in, tl_ids, k, r) ==
    IF r.exc # "ok" THEN r ELSE LinkTasks(r.T, tl_in, tl_ids, k + 1)

LinkTasks(T, tl_in, tl_ids, k) ==
    IF k > Len(tl_in) THEN [T |-> T, exc |-> "ok"]
    ELSE TaskLinked(tl_in, tl_ids, k,
                    LinkDependencies(T, tl_in, tl_ids, k, 1))

\* for t in task_list: t.update_from_dependencies(verify=False)
RECURSIVE UpdateTasks(_, _, _)
TaskUpdated(task_list, i, r) ==
    IF r.exc # "ok" THEN r ELSE UpdateTasks(r.T, task_list, i + 1)

UpdateTasks(T, task_list, i) ==
    IF i > Len(task_list) THEN [T |-> T, exc |-> "ok"]
    ELSE TaskUpdated(task_list, i,
                     update_from_dependencies(T, task_list[i], FALSE, TRUE))

\* the tasks are updated once every record is linked
Linked(task_list, linked) ==
    IF linked.exc # "ok" THEN linked
    ELSE UpdateTasks(linked.T, task_list, 1)

\* the keys of the working set, in its order
WorkingIds(T, tl_in) == [i \in DOMAIN tl_in |-> TaskKey(T, tl_in[i])]

\* load_dependencies(task_list): the tasks as the call leaves them and "ok"
\* or the exception that ended it
load_dependencies(T, task_list) ==
    Linked(task_list,
           LinkTasks(T, WorkingSet(T, task_list, 1),
                     WorkingIds(T, WorkingSet(T, task_list, 1)), 1))

-----------------------------------------------------------------------------
(* unpack_children_with_levels *)

\* a loop turn that lists the child after its descendants
ChildJoined_after(child, level, sub, rest) ==
    [ctasks |-> sub.ctasks \o <<child>> \o rest.ctasks,
     levels |-> sub.levels \o <<level + 1>> \o rest.levels]

\* one turn of the loop: the child, what its own unpacking returned (sub),
\* then what the later children add (rest)
ChildJoined(child, level, sub, rest) ==
    [ctasks |-> <<child>> \o sub.ctasks \o rest.ctasks,
     levels |-> <<level + 1>> \o sub.levels \o rest.levels]

RECURSIVE unpack_children_with_levels(_, _, _), UnpackLevels(_, _, _, _)

\* the loop over children from entry i on
UnpackLevels(T, children, i, level) ==
    IF i > Len(children) THEN [ctasks |-> <<>>, levels |-> <<>>]
    ELSE ChildJoined(children[i], level,
                     unpack_children_with_levels(T, children[i], level + 1),
                     UnpackLevels(T, children, i + 1, level))

\* unpack_children_with_levels(task, level): ctasks and levels
unpack_children_with_levels(T, task, level) ==
    UnpackLevels(T, T[task].children, 1, level)

-----------------------------------------------------------------------------
(* Construction *)

\* Task.__init__: the defaults, then the times, dependencies and children
\* given ('id' is an entry only when the caller passes one)
Task(name, start, end, duration, dependencies, children, id) ==
    [name |-> name, id |-> id, start |-> start, end |-> end,
     duration |-> duration, dependencies |-> dependencies,
     children |-> children]

\* the names the tasks are constructed with unless stated otherwise
TaskName ==
    (1 :> "task1") @@ (2 :> "task2") @@ (3 :> "task3") @@ (4 :> "task4")
        @@ (5 :> "task5")

\* the trees over the three tasks: a parent of one child beside a single
\* task, a parent of two children, a chain
Shapes ==
    { (1 :> <<2>>) @@ (2 :> <<>>) @@ (3 :> <<>>),
      (1 :> <<2, 3>>) @@ (2 :> <<>>) @@ (3 :> <<>>),
      (1 :> <<2>>) @@ (2 :> <<3>>) @@ (3 :> <<>>) }

\* a parent of two children, the first of which has two children itself
DeepShape ==
    (1 :> <<2, 3>>) @@ (2 :> <<4, 5>>) @@ (3 :> <<>>) @@ (4 :> <<>>)
        @@ (5 :> <<>>)

Fields == {"start", "end", "duration"}
Slots == TaskIds \X Fields

\* the fields stored in the deep tree: the root's start and duration, the
\* leaves' start and end
DeepSlots == ({1} \X {"start", "duration"}) \cup ({3, 4, 5} \X {"start", "end"})

\* tasks built with the fields in S given the values f, the rest None
Built(shape, S, f) ==
    [t \in DOMAIN shape |->
        Task(TaskName[t],
             IF <<t, "start">> \in S THEN At(f[<<t, "start">>]) ELSE None,
             IF <<t, "end">> \in S THEN At(f[<<t, "end">>]) ELSE None,
             IF <<t, "duration">> \in S THEN At(f[<<t, "duration">>]) ELSE None,
             <<>>, shape[t], NoId)]

\* last: the latest call, its receiver and arguments, how it ended, what it
\* returned, the tasks before it, and for a propagation pass that repeats
\* the call before it the tasks before that earlier pass
NoCall ==
    [op |-> "none", task |-> 0, arg |-> <<>>, exc |-> "ok", ret |-> <<>>,
     pre |-> <<>>, prior |-> <<>>]

InitRead ==
    /\ \E shape \in Shapes \cup {DeepShape} :
       \E S \in {X \in SUBSET (IF shape = DeepShape THEN DeepSlots ELSE Slots) :
                    Cardinality(X) <= MaxStored} :
       \E f \in [S -> 0..MaxTime] :
          tasks = Built(shape, S, f)
    /\ last = NoCall

-----------------------------------------------------------------------------
(* Operations *)

\* t.verify()
Verify(t) ==
    /\ last' = [op |-> "verify", task |-> t, arg |-> <<>>,
                exc |-> verify(tasks, t), ret |-> <<>>, pre |-> tasks,
                prior |-> <<>>]
    /\ UNCHANGED tasks

\* reading t.start, t.end, t.duration
ReadTimes(t) ==
    \E ret \in {[start |-> start_(tasks, t), end |-> end_(tasks, t),
                  duration |-> duration_(tasks, t)]} :
    /\ last' = [op |-> "read", task |-> t, arg |-> <<>>,
                exc |-> IF Raised \in {ret.start, ret.end, ret.duration}
                        THEN "TypeError" ELSE "ok",
                ret |-> ret, pre |-> tasks, prior |-> <<>>]
    /\ UNCHANGED tasks

\* largest level unpack_children_with_levels is called with
MaxLevel == 1

\* unpack_children_with_levels(t, level)
UnpackChildrenWithLevels(t, level) ==
    /\ last' = [op |-> "unpack_children_with_levels", task |-> t,
                arg |-> level, exc |-> "ok",
                ret |-> unpack_children_with_levels(tasks, t, level),
                pre |-> tasks, prior |-> <<>>]
    /\ UNCHANGED tasks

\* the dependency entries all tasks hold together
TotalDeps(T) ==
    LET n(t) == Len(T[t].dependencies) IN n(1) + n(2) + n(3)

\* every stored instant is within the cap
InRange(T) ==
    \A t \in TaskIds : \A f \in {"start", "end"} :
        IsVal(T[t][f]) => (T[t][f].v <= MaxVal /\ T[t][f].v >= 0 - MaxVal)

\* t.add_dependency(Dependency(task, type), update)
Added(T, t, made, update) ==
    IF made.exc # "ok" THEN [T |-> T, exc |-> made.exc]
    ELSE add_dependency(T, t, made.obj, update)

AddDependency(t, task, type, update) ==
    \E r \in {Added(tasks, t, Dependency(task, type), update)} :
    /\ TotalDeps(tasks) < Cardinality(DepSlots)
    /\ InRange(r.T)
    /\ tasks' = r.T
    /\ last' = [op |-> "add_dependency", task |-> t,
                arg |-> [task |-> task, type |-> type, update |-> update],
                exc |-> r.exc, ret |-> <<>>, pre |-> tasks, prior |-> <<>>]

\* t.update_from_dependencies(verify, update_children)
UpdateFromDependencies(t, verify_flg, update_children) ==
    \E r \in {update_from_dependencies(tasks, t, verify_flg,
                                       update_children)} :
    /\ InRange(r.T)
    /\ tasks' = r.T
    /\ last' = [op |-> "update_from_dependencies", task |-> t,
                arg |-> [verify |-> verify_flg,
                         update_children |-> update_children],
                exc |-> r.exc, ret |-> <<>>, pre |-> tasks,
                prior |-> IF last.op = "update_from_dependencies"
                             /\ last.task = t
                             /\ last.arg = [verify |-> verify_flg,
                                            update_children |-> update_children]
                          THEN last.pre ELSE <<>>]

\* t['dependencies'][i].get_dependency()
GetDependency(t, i) ==
    /\ i \in DOMAIN tasks[t].dependencies
    /\ tasks[t].dependencies[i].cls = "Dependency"
    /\ \E item \in {get_dependency(tasks, tasks[t].dependencies[i])} :
       last' = [op |-> "get_dependency", task |-> t, arg |-> i,
                exc |-> IF item.value = Raised THEN "TypeError" ELSE "ok",
                ret |-> item, pre |-> tasks, prior |-> <<>>]
    /\ UNCHANGED tasks

\* the lists load_dependencies is called with: tasks in any order, no repeats
TaskLists ==
    {l \in UNION {[1..n -> TaskIds] : n \in 1..Cardinality(TaskIds)} :
        \A i, j \in DOMAIN l : i # j => l[i] # l[j]}

\* load_dependencies(task_list)
LoadDependencies(task_list) ==
    \E r \in {load_dependencies(tasks, task_list)} :
    /\ InRange(r.T)
    /\ tasks' = r.T
    /\ last' = [op |-> "load_dependencies", task |-> 0, arg |-> task_list,
                exc |-> r.exc, ret |-> <<>>, pre |-> tasks, prior |-> <<>>]

\* the types a caller passes: the six allowed ones and one that is not
CallerTypes == allowed_types \cup {"loopsAround"}

\* a call that raised ends the run
Running == last.exc = "ok"

Next ==
    \/ \E t \in TaskIds : \E task \in TaskIds \ {t} :
       \E type \in CallerTypes, update \in BOOLEAN :
          /\ Running
          /\ TotalDeps(tasks) = 0
          /\ AddDependency(t, task, type, update)
    \/ \E t \in TaskIds, verify_flg \in BOOLEAN, update_children \in BOOLEAN :
          Running /\ UpdateFromDependencies(t, verify_flg, update_children)
    \/ \E t \in TaskIds, i \in DepSlots : Running /\ GetDependency(t, i)

\* the value field g of task t is constructed with in Init
DefaultTime ==
    [s \in Slots |->
        CASE s[2] = "start" -> s[1] - 1
          [] s[2] = "duration" -> 1
          [] s[2] = "end" -> s[1] + 1]

\* the fields a task is constructed with in Init: none, a duration, a start
\* and a duration, an end
TimeMenu == {{}, {"duration"}, {"start", "duration"}, {"end"}}

Init ==
    /\ \E shape \in Shapes : \E m \in [TaskIds -> TimeMenu] :
          tasks = Built(shape, {s \in Slots : s[2] \in m[s[1]]}, DefaultTime)
    /\ last = NoCall

Spec == Init /\ [][Next]_vars

\* the types of the dependencies added before repeated passes: one that
\* hands a start to a start, one an end to a start, one a start to an end
TwiceTypes == {"startsWith", "startsAfter", "endsBefore"}

\* the fields a task is constructed with before repeated passes
TwiceMenu == {{}, {"duration"}, {"start", "duration"}}

InitTwice ==
    /\ \E shape \in Shapes : \E m \in [TaskIds -> TwiceMenu] :
          tasks = Built(shape, {s \in Slots : s[2] \in m[s[1]]}, DefaultTime)
    /\ last = NoCall

\* the dependencies are added without updating, then the passes are made,
\* children included
NextTwice ==
    \/ \E t \in TaskIds : \E task \in TaskIds \ {t} : \E type \in TwiceTypes :
          /\ last.op \in {"none", "add_dependency"}
          /\ AddDependency(t, task, type, FALSE)
    \/ \E t \in TaskIds, verify_flg \in BOOLEAN :
          /\ Running
          /\ TotalDeps(tasks) = Cardinality(DepSlots)
          /\ UpdateFromDependencies(t, verify_flg, TRUE)

SpecTwice == InitTwice /\ [][NextTwice]_vars

\* the ids some tasks are constructed with: none; one id no name equals; one
\* id that equals another task's name
IdMenu ==
    { [t \in TaskIds |-> NoId],
      [t \in TaskIds |-> IF t = 2 THEN "id2" ELSE NoId],
      [t \in TaskIds |-> IF t = 3 THEN "task1" ELSE NoId] }

\* the {'task': key, 'type': type} records tasks are constructed with: keys
\* that name a task, an id, or nothing; an allowed type and one that is not
RecordKeys == {"task1", "task3", "id2", "nowhere"}
RecordTypes == {"startsAfter", "loopsAround"}
Records ==
    [holder : TaskIds, key : RecordKeys, type : RecordTypes]

\* the record lists the tasks are constructed with, in construction order
RecordLists ==
    UNION {[1..n -> Records] : n \in 0..Cardinality(DepSlots)}

\* the tasks T constructed with the given ids
WithIds(T, ids) == [t \in DOMAIN T |-> [T[t] EXCEPT !.id = ids[t]]]

\* the tasks T constructed with the records recs[i..] as dependencies
RECURSIVE WithRecords(_, _, _)
WithRecords(T, recs, i) ==
    IF i > Len(recs) THEN T
    ELSE WithRecords(
             [T EXCEPT ![recs[i].holder].dependencies =
                 Append(@, DependencyRecord(recs[i].key, recs[i].type))],
             recs, i + 1)

\* the fields the tasks are constructed with before linking
LinkTimes ==
    { [t \in TaskIds |-> IF t = 1 THEN {"start", "duration"} ELSE {}] }

InitLink ==
    /\ \E shape \in Shapes, m \in LinkTimes, ids \in IdMenu,
          recs \in RecordLists :
          tasks = WithRecords(
                      WithIds(Built(shape, {s \in Slots : s[2] \in m[s[1]]},
                                    DefaultTime), ids),
                      recs, 1)
    /\ last = NoCall

NextLink ==
    \/ \E l \in TaskLists : Running /\ LoadDependencies(l)
    \/ \E t \in TaskIds : \E task \in TaskIds \ {t} :
       \E type \in CallerTypes, update \in BOOLEAN :
          /\ Running
          /\ TotalDeps(tasks) = 0
          /\ AddDependency(t, task, type, update)

SpecLink == InitLink /\ [][NextLink]_vars

\* the one record a task is constructed with before an update is called
\* without linking
UnlinkedRecords == {r \in Records : r.key = "task1" /\ r.type = "startsAfter"}

\* tasks constructed with one record and one Dependency object; where one
\* task holds both, the record stands first or second
InitAbort ==
    /\ \E shape \in Shapes : \E m \in [TaskIds -> TwiceMenu] :
       \E rec \in UnlinkedRecords, record_first \in BOOLEAN :
       \E t \in TaskIds : \E task \in TaskIds \ {t} : \E type \in TwiceTypes :
       \E B \in {Built(shape, {s \in Slots : s[2] \in m[s[1]]}, DefaultTime)} :
          tasks = IF record_first
                  THEN add_dependency(WithRecords(B, <<rec>>, 1), t,
                                      Dependency(task, type).obj, FALSE).T
                  ELSE WithRecords(
                           add_dependency(B, t, Dependency(task, type).obj,
                                          FALSE).T,
                           <<rec>>, 1)
    /\ last = NoCall

NextAbort ==
    \E t \in TaskIds, verify_flg \in BOOLEAN, update_children \in BOOLEAN :
        Running /\ UpdateFromDependencies(t, verify_flg, update_children)

SpecAbort == InitAbort /\ [][NextAbort]_vars

-----------------------------------------------------------------------------
(* update_from_dependencies step by step: the frames of the running call *)

\* the frame of a call t.update_from_dependencies(verify, update_children)
\* at its entry: pc is the part of the body to run next, i the child the
\* children loop is at, dvals the dict of the first loop
Frame(t, verify_flg, update_children) ==
    [task |-> t, verify |-> verify_flg, update_children |-> update_children,
     pc |-> "first", i |-> 1, dvals |-> EmptyDvals]

\* a children loop that calls its first child at every turn
ChildFrame_first(children, i) == Frame(children[1], FALSE, TRUE)

\* c.update_from_dependencies(verify=False, update_children=True)
ChildFrame(children, i) == Frame(children[i], FALSE, TRUE)

\* the frames of the running call, the innermost last, and the tasks whose
\* update has been entered, in order
Stack == last.ret.stack
Entered == last.ret.entered
Top == Stack[Len(Stack)]

\* the innermost frame replaced by f
WithTop(f) == [Stack EXCEPT ![Len(Stack)] = f]

\* an exception leaves every frame: no frame has a handler
Raise(exc) == [last EXCEPT !.exc = exc, !.ret.stack = <<>>]

InCall == last.op = "update_from_dependencies (steps)" /\ Stack # <<>>

\* the caller calls t.update_from_dependencies(verify, update_children)
Enter(t, verify_flg, update_children) ==
    /\ ~InCall
    /\ Running
    /\ InRange(update_from_dependencies(tasks, t, verify_flg,
                                        update_children).T)
    /\ last' = [op |-> "update_from_dependencies (steps)", task |-> t,
                arg |-> [verify |-> verify_flg,
                         update_children |-> update_children],
                exc |-> "ok",
                ret |-> [stack |-> <<Frame(t, verify_flg, update_children)>>,
                         entered |-> <<t>>],
                pre |-> tasks, prior |-> <<>>]
    /\ UNCHANGED tasks

\* the first loop over the dependencies and self.update(dvals)
FirstLoop ==
    /\ InCall
    /\ Top.pc = "first"
    /\ \E r \in {EvalDependencies(tasks, Top.task, 1, EmptyDvals, TRUE)} :
          IF r.exc # "ok"
          THEN last' = Raise(r.exc) /\ UNCHANGED tasks
          ELSE /\ tasks' = TaskUpdate(tasks, Top.task, r.dvals)
               /\ last' = [last EXCEPT !.ret.stack =
                              WithTop([Top EXCEPT !.pc = "children",
                                                  !.dvals = r.dvals])]

\* one turn of the loop over the children: the child's call is entered, or
\* the loop is over
ChildrenLoop ==
    /\ InCall
    /\ Top.pc = "children"
    /\ IF Top.update_children /\ Top.i <= Len(tasks[Top.task].children)
       THEN last' = [last EXCEPT
                       !.ret.stack =
                           Append(WithTop([Top EXCEPT !.i = @ + 1]),
                                  ChildFrame(tasks[Top.task].children, Top.i)),
                       !.ret.entered =
                           Append(@, ChildFrame(tasks[Top.task].children,
                                                Top.i).task)]
       ELSE last' = [last EXCEPT !.ret.stack =
                        WithTop([Top EXCEPT !.pc = "second"])]
    /\ UNCHANGED tasks

\* the frame returns, or verify() raises
Returned(f, T) ==
    IF f.verify /\ verify(T, f.task) # "ok"
    THEN Raise(verify(T, f.task))
    ELSE [last EXCEPT !.ret.stack = SubSeq(Stack, 1, Len(Stack) - 1)]

\* the second loop over the dependencies, self.update(dvals), verify()
SecondLoop ==
    /\ InCall
    /\ Top.pc = "second"
    /\ \E r \in {EvalDependencies(tasks, Top.task, 1, Top.dvals, FALSE)} :
          IF r.exc # "ok"
          THEN last' = Raise(r.exc) /\ UNCHANGED tasks
          ELSE /\ tasks' = TaskUpdate(tasks, Top.task, r.dvals)
               /\ last' = Returned(Top, TaskUpdate(tasks, Top.task, r.dvals))

\* the types of the dependencies the tasks hold: one that hands a start to a
\* start, one an end to a start
StepTypes == {"startsWith", "startsAfter"}

\* the fields the tasks are constructed with
StepTimes ==
    { [t \in TaskIds |-> IF t = 1 THEN {"start", "duration"} ELSE {"duration"}],
      [t \in TaskIds |-> IF t = 3 THEN {"start", "duration"} ELSE {}] }

\* two dependencies between any tasks: on each other, on the own parent or
\* child, twice on the same task
InitSteps ==
    /\ \E shape \in Shapes, m \in StepTimes :
       \E t1 \in TaskIds, t2 \in TaskIds :
       \E task1 \in TaskIds \ {t1}, task2 \in TaskIds \ {t2} :
       \E type1 \in StepTypes, type2 \in StepTypes :
       \E B \in {Built(shape, {s \in Slots : s[2] \in m[s[1]]}, DefaultTime)} :
          tasks = add_dependency(
                      add_dependency(B, t1, Dependency(task1, type1).obj,
                                     FALSE).T,
                      t2, Dependency(task2, type2).obj, FALSE).T
    /\ last = NoCall

\* the body of the running call goes on
Step == FirstLoop \/ ChildrenLoop \/ SecondLoop

NextSteps ==
    \/ \E t \in TaskIds, verify_flg \in BOOLEAN, update_children \in BOOLEAN :
          Enter(t, verify_flg, update_children)
    \/ FirstLoop
    \/ ChildrenLoop
    \/ SecondLoop

\* a call that was entered runs on: nothing suspends it
SpecSteps == InitSteps /\ [][NextSteps]_vars /\ WF_vars(Step)

NextRead ==
    \/ \E t \in DOMAIN tasks : Verify(t)
    \/ \E t \in DOMAIN tasks : ReadTimes(t)
    \/ \E t \in DOMAIN tasks, level \in 0..MaxLevel :
          UnpackChildrenWithLevels(t, level)

SpecRead == InitRead /\ [][NextRead]_vars

-----------------------------------------------------------------------------
(* Duration text: Task._load_datetimes and TaskEncoder.default *)

\* a text is the sequence of its characters
Digits == <<"0", "1", "2", "3", "4", "5", "6", "7", "8", "9">>

\* '%d' % n for n >= 0
RECURSIVE Dec(_)
Dec(n) == IF n < 10 THEN <<Digits[n + 1]>>
          ELSE Dec(n \div 10) \o <<Digits[(n % 10) + 1]>>

\* '%02d' % n for n >= 0
Pad2(n) == IF n < 10 THEN <<"0">> \o Dec(n) ELSE Dec(n)

\* re.split('(d|:)', text)[::2]: the pieces between the 'd' and ':' characters
RECURSIVE SplitFields(_, _, _)
SplitFields(text, i, piece) ==
    IF i > Len(text) THEN <<piece>>
    ELSE IF text[i] \in {"d", ":"}
    THEN <<piece>> \o SplitFields(text, i + 1, <<>>)
    ELSE SplitFields(text, i + 1, Append(piece, text[i]))

\* str.strip() as int() applies it: the blanks at both ends go
RECURSIVE Strip(_)
Strip(piece) ==
    IF piece = <<>> THEN piece
    ELSE IF Head(piece) = " " THEN Strip(Tail(piece))
    ELSE IF piece[Len(piece)] = " " THEN Strip(SubSeq(piece, 1, Len(piece) - 1))
    ELSE piece

DigitValue(c) == CHOOSE n \in 0..9 : Digits[n + 1] = c

RECURSIVE DigitsValue(_, _)
DigitsValue(piece, acc) ==
    IF piece = <<>> THEN acc
    ELSE DigitsValue(Tail(piece), 10 * acc + DigitValue(Head(piece)))

\* int(v): the number, or ValueError for a piece that is not decimal digits
ToInt(piece) ==
    IF Strip(piece) # <<>> /\ \A i \in DOMAIN Strip(piece) :
                                 \E n \in 0..9 : Digits[n + 1] = Strip(piece)[i]
    THEN [exc |-> "ok", v |-> DigitsValue(Strip(piece), 0)]
    ELSE [exc |-> "ValueError", v |-> 0]

\* datetime.timedelta(days, hours, minutes, seconds), held as its seconds
timedelta(days, hours, minutes, seconds) ==
    At(((days * 24 + hours) * 60 + minutes) * 60 + seconds)

\* the timedelta of the pieces td: int() of each, then td[0] .. td[3]
ParsedFields(td) ==
    IF \E i \in DOMAIN td : ToInt(td[i]).exc # "ok"
    THEN [exc |-> "ValueError", v |-> None]
    ELSE IF Len(td) < 4 THEN [exc |-> "IndexError", v |-> None]
    ELSE [exc |-> "ok",
          v |-> timedelta(ToInt(td[1]).v, ToInt(td[2]).v, ToInt(td[3]).v,
                          ToInt(td[4]).v)]

\* Task._load_datetimes on a duration given as text
_load_datetimes(text) == ParsedFields(SplitFields(text, 1, <<>>))

\* str(timedelta) of a duration of n >= 0 seconds
TimedeltaStr(n) ==
    (IF n \div 86400 = 0 THEN <<>>
     ELSE Dec(n \div 86400) \o <<" ", "d", "a", "y">>
              \o (IF n \div 86400 # 1 THEN <<"s">> ELSE <<>>) \o <<",", " ">>)
    \o Dec((n % 86400) \div 3600) \o <<":">>
    \o Pad2(((n % 86400) \div 60) % 60) \o <<":">> \o Pad2(n % 60)

\* text.replace(old, new)
RECURSIVE Replace(_, _, _)
Replace(text, old, new) ==
    IF Len(text) < Len(old) THEN text
    ELSE IF SubSeq(text, 1, Len(old)) = old
    THEN new \o Replace(SubSeq(text, Len(old) + 1, Len(text)), old, new)
    ELSE <<Head(text)>> \o Replace(Tail(text), old, new)

\* TaskEncoder.default on a timedelta
TaskEncoder_default(obj) ==
    Replace(TimedeltaStr(obj.v), <<" ", "d", "a", "y", "s", ",", " ">>, <<"d">>)

\* largest number of days in a duration text
MaxDays == 3

\* the hours, minutes and seconds the duration texts are written with
TextHours == {0, 1, 23}
TextMinutes == {0, 5, 30}
TextSeconds == {0, 59}

\* the texts <days>d<hours>:<minutes>:<seconds>, minutes and seconds written
\* with or without a leading zero
DurationTexts ==
    {Dec(d) \o <<"d">> \o Dec(h) \o <<":">> \o m \o <<":">> \o sec :
        d \in 0..MaxDays, h \in TextHours,
        m \in UNION {{Dec(x), Pad2(x)} : x \in TextMinutes},
        sec \in UNION {{Dec(x), Pad2(x)} : x \in TextSeconds}}

\* Task('task1', duration=text)
InitText ==
    /\ \E text \in DurationTexts :
          /\ tasks = <<Task("task1", None, None, _load_datetimes(text).v,
                            <<>>, <<>>, NoId)>>
          /\ last = [op |-> "Task", task |-> 1, arg |-> text, exc |-> "ok",
                     ret |-> <<>>, pre |-> <<>>, prior |-> <<>>]

\* json.dumps(t['duration'], cls=TaskEncoder); arg keeps the text the
\* duration was constructed from
Dumps(t) ==
    /\ last.op = "Task"
    /\ IsVal(tasks[t].duration)
    /\ last' = [op |-> "dumps", task |-> t, arg |-> last.arg, exc |-> "ok",
                ret |-> TaskEncoder_default(tasks[t].duration),
                pre |-> tasks, prior |-> <<>>]
    /\ UNCHANGED tasks

\* Task('task1', duration=text) of the text dumps returned
Reload(t) ==
    /\ last.op = "dumps"
    /\ \E r \in {_load_datetimes(last.ret)} :
          /\ tasks' = IF r.exc = "ok" THEN [tasks EXCEPT ![t].duration = r.v]
                      ELSE tasks
          /\ last' = [op |-> "Task", task |-> t, arg |-> last.ret,
                      exc |-> r.exc, ret |-> <<>>, pre |-> tasks,
                      prior |-> last.arg]

NextText ==
    \/ \E t \in DOMAIN tasks : Running /\ Dumps(t)
    \/ \E t \in DOMAIN tasks : Running /\ Reload(t)

SpecText == InitText /\ [][NextText]_vars

-----------------------------------------------------------------------------
(* Task.progress *)

\* what np.mean gives for no numbers or for a nan among them
NaN == [k |-> "nan", v |-> 0]

\* the notes a task is constructed with, and those the property writes
NoNotes == "None"
MeanNotes == "#mean([children[progress]])"

\* the sum of the numbers s[i..]
RECURSIVE SumFrom(_, _)
SumFrom(s, i) == IF i > Len(s) THEN 0 ELSE s[i].v + SumFrom(s, i + 1)

\* np.round of sum/n: to the nearest integer, a half to the even one
RoundHalfEven(sum, n) ==
    IF 2 * (sum % n) < n THEN sum \div n
    ELSE IF 2 * (sum % n) > n THEN (sum \div n) + 1
    ELSE IF (sum \div n) % 2 = 0 THEN sum \div n
    ELSE (sum \div n) + 1

\* np.round(np.mean(percents))
np_round_mean(percents) ==
    IF percents = <<>> \/ \E i \in DOMAIN percents : percents[i] = NaN
    THEN NaN
    ELSE At(RoundHalfEven(SumFrom(percents, 1), Len(percents)))

RECURSIVE progress(_, _), ChildrenProgress(_, _, _, _)

\* st.progress['percent'] of child i joins the list; the read of the child
\* leaves the tasks as r.T
ChildRead(children, i, percents, r) ==
    ChildrenProgress(r.T, children, i + 1, Append(percents, r.percent))

\* [st.progress['percent'] for st in self['children']] from child i on
ChildrenProgress(T, children, i, percents) ==
    IF i > Len(children) THEN [T |-> T, percents |-> percents]
    ELSE ChildRead(children, i, percents, progress(T, children[i]))

\* progress_dict is the dict the task stores, not a copy: the mean and the
\* notes are written into it
Averaged(t, r) ==
    [T |-> [r.T EXCEPT ![t].progress =
                [percent |-> np_round_mean(r.percents), notes |-> MeanNotes]],
     percent |-> np_round_mean(r.percents)]

\* the property Task.progress: the tasks as the read leaves them and the
\* percent of the dict returned
progress(T, t) ==
    IF T[t].progress.percent # None
    THEN [T |-> T, percent |-> T[t].progress.percent]
    ELSE Averaged(t, ChildrenProgress(T, T[t].children, 1, <<>>))

\* rd['percent_complete'] = [task.progress['percent'] for task in tasks]
RECURSIVE PercentComplete(_, _, _, _)
TaskRead(task_list, i, out, r) ==
    PercentComplete(r.T, task_list, i + 1, Append(out, r.percent))

PercentComplete(T, task_list, i, out) ==
    IF i > Len(task_list) THEN [T |-> T, out |-> out]
    ELSE TaskRead(task_list, i, out, progress(T, task_list[i]))

\* the percents tasks are given
PercentValues == {0, 25, 50}

\* the tasks T constructed with the given percents (None: no progress given)
WithProgress(T, percent) ==
    [t \in DOMAIN T |->
        [progress |-> [percent |-> percent[t], notes |-> NoNotes]] @@ T[t]]

InitProgress ==
    /\ \E shape \in Shapes :
       \E percent \in [TaskIds -> {None} \cup {At(p) : p \in PercentValues}] :
          tasks = WithProgress(Built(shape, {}, DefaultTime), percent)
    /\ last = NoCall

\* reading t.progress
ReadProgress(t) ==
    \E r \in {progress(tasks, t)} :
    /\ tasks' = r.T
    /\ last' = [op |-> "progress", task |-> t, arg |-> <<>>, exc |-> "ok",
                ret |-> r.T[t].progress, pre |-> tasks,
                prior |-> IF last.op = "set percent" THEN last ELSE <<>>]

\* the caller changes t's percent: t['progress']['percent'] = p
SetPercent(t, p) ==
    /\ tasks' = [tasks EXCEPT ![t].progress.percent = At(p)]
    /\ last' = [op |-> "set percent", task |-> t, arg |-> p, exc |-> "ok",
                ret |-> <<>>, pre |-> tasks, prior |-> last]

\* Schedule._get_as_lists(tasks): the percents listed
GetAsLists(task_list) ==
    \E r \in {PercentComplete(tasks, task_list, 1, <<>>)} :
    /\ tasks' = r.T
    /\ last' = [op |-> "_get_as_lists", task |-> 0, arg |-> task_list,
                exc |-> "ok", ret |-> r.out, pre |-> tasks, prior |-> <<>>]

\* a read, a change of a percent, a read; or the percents of a list of tasks
NextProgress ==
    \/ \E t \in TaskIds :
          last.op \in {"none", "set percent"} /\ ReadProgress(t)
    \/ \E t \in TaskIds, p \in PercentValues :
          /\ last.op = "progress"
          /\ last.prior = <<>>
          /\ SetPercent(t, p)
    \/ \E l \in TaskLists : last.op = "none" /\ GetAsLists(l)

SpecProgress == InitProgress /\ [][NextProgress]_vars

-----------------------------------------------------------------------------
(* Claims about verify() and the time properties (SpecRead) *)

\* the fields of t that hold a value
StoredFields(T, t) == {f \in Fields : T[t][f] # None}

\* no child of t resolves a value for field f (f is start or end); a
\* duration is never taken from the children
NoChildSupplies(T, t, f) ==
    \A i \in DOMAIN T[t].children :
        /\ f = "start" => start_(T, T[t].children[i]) = None
        /\ f = "end" => end_(T, T[t].children[i]) = None

\* the third field derived from the two stored ones
Derived(T, t, f) ==
    CASE f = "start" -> At(T[t].end.v - T[t].duration.v)
      [] f = "end" -> At(T[t].start.v + T[t].duration.v)
      [] f = "duration" -> At(T[t].end.v - T[t].start.v)

\* what C1 promises of a call on a task with exactly two stored fields
TwoStoredResolves(c) ==
    LET t == c.task
        f == CHOOSE g \in Fields : g \notin StoredFields(tasks, t)
    IN
    /\ c.op = "verify" => c.exc = "ok"
    /\ c.op = "read" => c.exc = "ok" /\ c.ret[f] = Derived(tasks, t, f)

C2_Underdefined ==
    (last.op = "verify"
        /\ Cardinality(StoredFields(tasks, last.task)) <= 1
        /\ tasks[last.task].children = <<>>
        /\ tasks[last.task].dependencies = <<>>)
    => last.exc = "Underdefined"

C2_Witness ==
    /\ last.op = "verify"
    /\ Cardinality(StoredFields(tasks, last.task)) = 1
    /\ tasks[last.task].children = <<>>
    /\ last.exc = "Underdefined"

\* C3: a Task with all three of start/end/duration stored fails verify() as
\* overdefined, consistent or not.
C3_Overdefined ==
    (last.op = "verify" /\ StoredFields(tasks, last.task) = Fields)
    => last.exc = "Overdefined"

C3_Witness ==
    /\ last.op = "verify"
    /\ StoredFields(tasks, last.task) = Fields
    /\ tasks[last.task].start.v + tasks[last.task].duration.v
          # tasks[last.task].end.v
    /\ last.exc = "Overdefined"

\* the children of t whose property f resolves to a value
ChildValues(T, t, f) ==
    LET children == T[t].children
        val(c) == IF f = "start" THEN start_(T, c) ELSE end_(T, c)
    IN {val(children[i]).v : i \in {j \in DOMAIN children : IsVal(val(children[j]))}}

\* C7: a Task with no stored start and a child with a resolved start has the
\* minimum of the children's resolved starts as its start; children without
\* a start are ignored and cause no failure.
C7_MinOfChildren ==
    (last.op = "read"
        /\ tasks[last.task].start = None
        /\ ChildValues(tasks, last.task, "start") # {})
    => last.ret.start = At(MinOf(ChildValues(tasks, last.task, "start")))

\* C8: a Task with no stored end has the maximum of its children's resolved
\* ends as its end; children without an end are ignored.
C8_MaxOfChildren ==
    (last.op = "read"
        /\ tasks[last.task].end = None
        /\ ChildValues(tasks, last.task, "end") # {})
    => last.ret.end = At(MaxOf(ChildValues(tasks, last.task, "end")))

\* the same where every child's end can be read
C8_MaxOfReadableChildren ==
    (last.op = "read"
        /\ tasks[last.task].end = None
        /\ ChildValues(tasks, last.task, "end") # {}
        /\ \A i \in DOMAIN tasks[last.task].children :
              end_(tasks, tasks[last.task].children[i]) # Raised)
    => last.ret.end = At(MaxOf(ChildValues(tasks, last.task, "end")))

C8_Witness ==
    /\ last.op = "read"
    /\ tasks[last.task].end = None
    /\ Len(tasks[last.task].children) = 2
    /\ end_(tasks, tasks[last.task].children[1]) = At(1)
    /\ end_(tasks, tasks[last.task].children[2]) = At(0)
    /\ last.ret.end = At(1)

\* the proper descendants of t
RECURSIVE Descendants(_, _)
Descendants(T, t) ==
    SeqToSet(T[t].children)
        \cup UNION {Descendants(T, T[t].children[i]) : i \in DOMAIN T[t].children}

\* what the stored value and the children give for field f, no arithmetic
StoredOrChildren(T, t, f) ==
    IF T[t][f] # None THEN T[t][f]
    ELSE IF f = "start" /\ ChildValues(T, t, f) # {}
    THEN At(MinOf(ChildValues(T, t, f)))
    ELSE IF f = "end" /\ ChildValues(T, t, f) # {}
    THEN At(MaxOf(ChildValues(T, t, f)))
    ELSE None

\* field f derived from the other two, where both are there without
\* arithmetic
Arithmetic(T, t, f) ==
    LET v(g) == StoredOrChildren(T, t, g) IN
    CASE f = "start" ->
            IF IsVal(v("end")) /\ IsVal(v("duration"))
            THEN At(v("end").v - v("duration").v) ELSE None
      [] f = "end" ->
            IF IsVal(v("start")) /\ IsVal(v("duration"))
            THEN At(v("start").v + v("duration").v) ELSE None
      [] f = "duration" ->
            IF IsVal(v("end")) /\ IsVal(v("start"))
            THEN At(v("end").v - v("start").v) ELSE None

\* the priority order: stored, children's aggregate, arithmetic when asked
PriorityOrder(T, t, f, calc) ==
    IF StoredOrChildren(T, t, f) # None THEN StoredOrChildren(T, t, f)
    ELSE IF calc THEN Arithmetic(T, t, f)
    ELSE None

\* C16: each of start and end is read in a fixed priority order: the stored
\* value whatever the children hold; else the children's aggregate if any
\* child supplies one, before arithmetic; else, only when calculation is
\* requested, the value derived from the other two fields; else absent.
\* Duration has no child-aggregation origin.  (Read through the properties
\* with calculation, by verify() without.)
C16_PriorityOrder ==
    /\ last.op = "read" =>
          \A f \in Fields :
              last.ret[f] = PriorityOrder(tasks, last.task, f, TRUE)
    /\ last.op = "verify" =>
          sed_vals(tasks, last.task)
              = <<PriorityOrder(tasks, last.task, "start", FALSE),
                  PriorityOrder(tasks, last.task, "end", FALSE),
                  PriorityOrder(tasks, last.task, "duration", FALSE)>>

\* the same where no read of the task or of a descendant raises
C16_ReadablePriorityOrder ==
    (/\ last.op \in {"read", "verify"}
     /\ \A u \in {last.task} \cup Descendants(tasks, last.task) :
           Raised \notin {start_(tasks, u), end_(tasks, u), duration_(tasks, u)})
    => C16_PriorityOrder

\* the outcome the count of absent values asks for
CountOutcome(sv) ==
    LET absent == Cardinality({i \in 1..3 : sv[i] = None}) IN
    IF absent < 1 THEN "Overdefined"
    ELSE IF absent > 1 THEN "Underdefined"
    ELSE "ok"

\* C14 as stated: verify() evaluates start, end and duration with arithmetic
\* calculation enabled and counts the absent ones: overdefined when none is
\* absent, underdefined when more than one is, success only when exactly one
\* is.
C14_Original ==
    last.op = "verify" =>
        last.exc = CountOutcome(<<get_start(tasks, last.task, TRUE),
                                  get_end(tasks, last.task, TRUE),
                                  get_duration(tasks, last.task, TRUE)>>)

\* C14 amended: verify() evaluates start, end and duration with arithmetic
\* calculation disabled (the stored value, else what the children supply) and
\* counts the absent ones: overdefined when none is absent, underdefined when
\* more than one is, success only when exactly one is; where one of the three
\* reads raises, verify() raises the same.
C14_VerifyCounts ==
    last.op = "verify" =>
        LET sv == <<get_start(tasks, last.task, FALSE),
                    get_end(tasks, last.task, FALSE),
                    get_duration(tasks, last.task, FALSE)>>
        IN IF \E i \in 1..3 : sv[i] = Raised THEN last.exc = "TypeError"
           ELSE last.exc = CountOutcome(sv)

\* verify() returned on a task whose three times all come out with
\* calculation enabled
C14_Witness ==
    /\ last.op = "verify"
    /\ last.exc = "ok"
    /\ StoredFields(tasks, last.task) = {"start", "duration"}
    /\ get_end(tasks, last.task, FALSE) = None
    /\ IsVal(get_end(tasks, last.task, TRUE))

\* where x stands in the sequence s
PositionIn(s, x) == CHOOSE i \in DOMAIN s : s[i] = x

\* C12: unpack_children_with_levels(task, level) returns two sequences of
\* equal length listing every proper descendant of task exactly once and not
\* task itself, in depth-first pre-order: a task's descendants fill the
\* places straight after it, siblings stand in stored order, a direct child
\* has level + 1 and every other task one level more than its parent.
C12_UnpackWithLevels ==
    last.op = "unpack_children_with_levels" =>
        LET ctasks == last.ret.ctasks
            levels == last.ret.levels
            at(x) == PositionIn(ctasks, x)
        IN
        /\ Len(ctasks) = Len(levels)
        /\ SeqToSet(ctasks) = Descendants(tasks, last.task)
        /\ Len(ctasks) = Cardinality(Descendants(tasks, last.task))
        /\ last.task \notin SeqToSet(ctasks)
        /\ \A u \in SeqToSet(ctasks) :
              /\ at(u) + Cardinality(Descendants(tasks, u)) <= Len(ctasks)
              /\ {ctasks[i] : i \in (at(u) + 1)..(at(u) + Cardinality(Descendants(tasks, u)))}
                    = Descendants(tasks, u)
        /\ \A p \in SeqToSet(ctasks) \cup {last.task} :
              \A i, j \in DOMAIN tasks[p].children :
                  /\ i < j => at(tasks[p].children[i]) < at(tasks[p].children[j])
                  /\ levels[at(tasks[p].children[i])]
                        = IF p = last.task THEN last.arg + 1
                          ELSE levels[at(p)] + 1

C12_Witness ==
    /\ last.op = "unpack_children_with_levels"
    /\ last.task = 1
    /\ last.ret.ctasks = <<2, 4, 5, 3>>
    /\ last.ret.levels
          = <<last.arg + 1, last.arg + 2, last.arg + 2, last.arg + 1>>

-----------------------------------------------------------------------------
(* Claims about dependencies and propagation (Spec) *)

\* the field a dependency of the given type constrains
KindField(type) ==
    IF type \in {"startsBefore", "startsWith", "startsAfter"} THEN "start"
    ELSE "end"

\* the time of the target a dependency of the given type hands over
KindValue(T, task, type) ==
    IF type \in {"startsBefore", "startsWith", "endsBefore"}
    THEN start_(T, task) ELSE end_(T, task)

\* C4: get_dependency() returns one item whose key and value follow from the
\* kind and the target's times: startsBefore and startsWith give start =
\* target.start, startsAfter gives start = target.end, endsBefore gives end =
\* target.start, endsWith and endsAfter give end = target.end; the key is
\* never duration and no task is modified.  (Where reading the target's time
\* raises, so does get_dependency.)
C4_GetDependency ==
    last.op = "get_dependency" =>
        /\ last.ret.field = KindField(tasks[last.task].dependencies[last.arg].type)
        /\ last.ret.value =
              KindValue(tasks, tasks[last.task].dependencies[last.arg].task,
                        tasks[last.task].dependencies[last.arg].type)
        /\ last.ret.field # "duration"
        /\ tasks = last.pre

C4_Witness ==
    /\ last.op = "get_dependency"
    /\ tasks[last.task].dependencies[last.arg].type = "startsAfter"
    /\ LET task == tasks[last.task].dependencies[last.arg].task IN
          /\ IsVal(tasks[task].start) /\ IsVal(tasks[task].duration)
          /\ tasks[task].children = <<>>
          /\ last.ret = [field |-> "start",
                         value |-> At(tasks[task].start.v + tasks[task].duration.v)]

\* the case of C6: the pass was called on a task B without stored times whose
\* dependencies were [(A, startsAfter)], A having a stored start and duration
StartsAfterCase(c) ==
    /\ c.op = "update_from_dependencies"
    /\ StoredFields(c.pre, c.task) = {}
    /\ Len(c.pre[c.task].dependencies) = 1
    /\ c.pre[c.task].dependencies[1].type = "startsAfter"
    /\ {"start", "duration"}
          \subseteq StoredFields(c.pre, c.pre[c.task].dependencies[1].task)

\* what C6 promises after the pass
StartsAfterResolved(c) ==
    LET A == c.pre[c.task].dependencies[1].task IN
    /\ start_(tasks, c.task) = end_(tasks, A)
    /\ end_(tasks, A) = At(c.pre[A].start.v + c.pre[A].duration.v)

\* C6 as stated: for any A with stored start s and duration d and any B whose
\* only time information is the dependency list [(A, startsAfter)], after one
\* pass of update_from_dependencies on B, B.start == A.end == s + d.
C6_Original == StartsAfterCase(last) => StartsAfterResolved(last)

\* C6 amended: the same where A has no stored end, none of A's children
\* resolves an end and B is not a descendant of A.
C6_StartsAfter ==
    (StartsAfterCase(last)
        /\ LET A == last.pre[last.task].dependencies[1].task IN
              /\ last.pre[A].end = None
              /\ NoChildSupplies(last.pre, A, "end")
              /\ last.task \notin SeqToSet(_unpack_children(last.pre, A)))
    => StartsAfterResolved(last)

C6_Witness ==
    /\ StartsAfterCase(last)
    /\ last.exc = "ok"
    /\ LET A == last.pre[last.task].dependencies[1].task IN
          /\ last.pre[A].duration.v > 0
          /\ tasks[last.task].start
                = At(last.pre[A].start.v + last.pre[A].duration.v)

\* the start, end and duration every task resolves to
Resolved(T) ==
    [t \in DOMAIN T |-> <<start_(T, t), end_(T, t), duration_(T, t)>>]

\* the pass was called on a task holding one Dependency whose target lacks
\* the time the dependency hands over
TargetLacksTime(c) ==
    /\ c.op = "update_from_dependencies"
    /\ Len(c.pre[c.task].dependencies) = 1
    /\ c.pre[c.task].dependencies[1].cls = "Dependency"
    /\ KindValue(c.pre, c.pre[c.task].dependencies[1].task,
                 c.pre[c.task].dependencies[1].type) = None

\* C13: when the target of a dependency does not have the time the
\* dependency needs, update_from_dependencies leaves the dependent task's
\* stored start and end as they were: no stored value is overwritten with an
\* absent one.
C13_Deferred ==
    TargetLacksTime(last) =>
        /\ tasks[last.task].start = last.pre[last.task].start
        /\ tasks[last.task].end = last.pre[last.task].end

\* C20: durations are non-negative: after any sequence of construction,
\* add_dependency and update_from_dependencies calls, every task for which
\* verify() succeeds has a resolved duration of at least zero, that is, its
\* resolved end is not earlier than its resolved start.
C20_NonNegative ==
    \A t \in TaskIds :
        verify(tasks, t) = "ok" =>
            /\ IsVal(duration_(tasks, t)) => duration_(tasks, t).v >= 0
            /\ (IsVal(start_(tasks, t)) /\ IsVal(end_(tasks, t)))
                  => end_(tasks, t).v >= start_(tasks, t).v

-----------------------------------------------------------------------------
(* Claims about repeated propagation (SpecTwice) *)

\* the places <<task, entry>> that hold a dependency
DependencyPlaces(T) ==
    {p \in (DOMAIN T) \X DepSlots : p[2] \in DOMAIN T[p[1]].dependencies}

\* the tasks the dependencies read: every target and, as a target's times
\* may come from its children, every descendant of a target
ReadTasks(T) ==
    UNION {{T[p[1]].dependencies[p[2]].task}
              \cup SeqToSet(_unpack_children(T, T[p[1]].dependencies[p[2]].task)) :
           p \in DependencyPlaces(T)}

\* no task a dependency reads resolves in T2 to other times than in T1
ReadsUnchanged(T1, T2) ==
    \A u \in ReadTasks(T1) : Resolved(T1)[u] = Resolved(T2)[u]

\* C9: where a pass of update_from_dependencies has changed nothing that a
\* dependency reads (the start, end and duration of every dependency's
\* target and of the target's descendants), the same call made again
\* straight after it leaves the start, end and duration every task resolves
\* to unchanged.
C9_Idempotent ==
    (last.op = "update_from_dependencies"
        /\ last.prior # <<>>
        /\ ReadsUnchanged(last.prior, last.pre))
    => Resolved(tasks) = Resolved(last.pre)

C9_Witness ==
    /\ last.op = "update_from_dependencies"
    /\ last.prior # <<>>
    /\ ReadsUnchanged(last.prior, last.pre)
    /\ Resolved(last.prior) # Resolved(last.pre)
    /\ TotalDeps(tasks) = 2
    /\ Resolved(tasks) = Resolved(last.pre)

\* the stored field a Dependency of the given type writes
StoredBy(T, t, type) == T[t][KindField(type)]

\* a pass on P, children included, that ran through its updates
PassRan(c) ==
    /\ c.op = "update_from_dependencies"
    /\ c.arg.update_children
    /\ c.exc \in {"ok", "Overdefined", "Underdefined"}

\* P holds one Dependency and its child C holds one Dependency on P
ChildDependsOnParent(T, P, C) ==
    /\ C \in SeqToSet(T[P].children)
    /\ Len(T[P].dependencies) = 1
    /\ Len(T[C].dependencies) = 1
    /\ T[C].dependencies[1].task = P

\* P's stored times as its own dependency rewrites them
Rewritten(T, P) ==
    [T EXCEPT ![P][KindField(T[P].dependencies[1].type)] =
        KindValue(T, T[P].dependencies[1].task, T[P].dependencies[1].type)]

\* P holds a Dependency on its own child C
ParentDependsOnChild(T, P, C) ==
    /\ C \in SeqToSet(T[P].children)
    /\ Len(T[P].dependencies) = 1
    /\ T[P].dependencies[1].task = C

\* the time of the target a Dependency of the given type reads
ReadField(type) ==
    IF type \in {"startsBefore", "startsWith", "endsBefore"} THEN "start"
    ELSE "end"

\* P's own dependency writes a value into the stored field that the
\* dependency of its child C reads
ChildReadsRewritten(T, P, C) ==
    /\ ChildDependsOnParent(T, P, C)
    /\ IsVal(KindValue(T, T[P].dependencies[1].task, T[P].dependencies[1].type))
    /\ KindField(T[P].dependencies[1].type) = ReadField(T[C].dependencies[1].type)

\* C15: within one update_from_dependencies call on a parent P the coupling
\* works in both directions: a child that depends on P is updated against
\* P's stored time as P's own dependency has rewritten it in this call, and a
\* dependency of P on one of its own children is evaluated again after the
\* children return, so that after the call P's stored field is that child's
\* time as resolved in this call.
C15_TwoWay ==
    PassRan(last) =>
        /\ \A C \in TaskIds :
              ChildReadsRewritten(last.pre, last.task, C) =>
                  StoredBy(tasks, C, last.pre[C].dependencies[1].type)
                      = StoredBy(Rewritten(last.pre, last.task), last.task,
                                 last.pre[last.task].dependencies[1].type)
        /\ \A C \in TaskIds :
              ParentDependsOnChild(last.pre, last.task, C) =>
                  StoredBy(tasks, last.task,
                           last.pre[last.task].dependencies[1].type)
                      = KindValue(tasks, C,
                                  last.pre[last.task].dependencies[1].type)

\* P startsAfter its child C and C startsWith P: C's start becomes the end C
\* had before the call, which P's dependency stored as P's start, and P's
\* start becomes the end C has after the call
C15_Witness ==
    /\ PassRan(last)
    /\ \E C \in TaskIds :
          /\ ParentDependsOnChild(last.pre, last.task, C)
          /\ ChildReadsRewritten(last.pre, last.task, C)
          /\ last.pre[last.task].dependencies[1].type = "startsAfter"
          /\ last.pre[C].dependencies[1].type = "startsWith"
          /\ IsVal(last.pre[C].start) /\ IsVal(last.pre[C].duration)
          /\ last.pre[C].duration.v > 0
          /\ tasks[C].start = At(last.pre[C].start.v + last.pre[C].duration.v)
          /\ tasks[last.task].start
                = At(last.pre[C].start.v + 2 * last.pre[C].duration.v)

\* the pass was called on a task whose two dependencies write the same field
SameFieldCase(c) ==
    /\ c.op = "update_from_dependencies"
    /\ Len(c.pre[c.task].dependencies) = 2
    /\ KindField(c.pre[c.task].dependencies[1].type)
          = KindField(c.pre[c.task].dependencies[2].type)

\* the value entry i of t's dependencies produces in T
Produced(T, t, i) ==
    KindValue(T, T[t].dependencies[i].task, T[t].dependencies[i].type)

\* the same tasks where t holds the last of its dependencies only
LastOnly(T, t) ==
    [T EXCEPT ![t].dependencies = <<@[Len(@)]>>]

\* the stored times of every task
StoredTimes(T) ==
    [t \in DOMAIN T |-> <<T[t].start, T[t].end, T[t].duration>>]

\* C17: when two dependencies of one task write the same field,
\* update_from_dependencies stores the value produced by the one that comes
\* last in the list, whatever the earlier one produces: the stored field is
\* the last one's value (where the target's times do not come from the task
\* itself), every stored time is what the pass leaves when the task holds
\* the last dependency only, and two differing values raise no error.
C17_LastWriteWins ==
    SameFieldCase(last) =>
        /\ (PassRan(last)
              /\ last.task \notin Descendants(last.pre,
                                last.pre[last.task].dependencies[2].task))
           => StoredBy(tasks, last.task, last.pre[last.task].dependencies[2].type)
                 = Produced(tasks, last.task, 2)
        /\ PassRan(last)
           => StoredTimes(tasks)
                 = StoredTimes(update_from_dependencies(
                       LastOnly(last.pre, last.task), last.task,
                       last.arg.verify, last.arg.update_children).T)
        /\ (/\ IsVal(Produced(last.pre, last.task, 1))
            /\ IsVal(Produced(last.pre, last.task, 2))
            /\ Produced(last.pre, last.task, 1) # Produced(last.pre, last.task, 2)
            /\ ~last.arg.verify)
           => last.exc = "ok"

\* two dependencies that produce different starts; the second one's is stored
C17_Witness ==
    /\ SameFieldCase(last)
    /\ last.exc = "ok"
    /\ IsVal(Produced(last.pre, last.task, 1))
    /\ IsVal(Produced(last.pre, last.task, 2))
    /\ Produced(last.pre, last.task, 1) # Produced(last.pre, last.task, 2)
    /\ tasks[last.task].start = Produced(last.pre, last.task, 2)
    /\ tasks[last.task].start # last.pre[last.task].start

-----------------------------------------------------------------------------
(* Claims about construction and linking of dependencies (SpecLink) *)

\* the working set of the latest load_dependencies call and its keys
LoadedSet == WorkingSet(last.pre, last.arg, 1)
LoadedIds == WorkingIds(last.pre, LoadedSet)

\* the places <<task, entry>> of the working set that held a record before
\* the call
LoadedRecords ==
    {p \in SeqToSet(LoadedSet) \X DepSlots :
        /\ p[2] \in DOMAIN last.pre[p[1]].dependencies
        /\ last.pre[p[1]].dependencies[p[2]].cls = "dict"}

\* C5: a Dependency of a kind outside the six allowed ones is never made:
\* no dependency list ever holds a Dependency object of another kind, an
\* add_dependency of a Dependency constructed with such a kind raises at the
\* construction and adds nothing, and a load_dependencies that meets a record
\* of such a kind does not return.
C5_InvalidKind ==
    /\ \A t \in TaskIds : \A i \in DOMAIN tasks[t].dependencies :
          tasks[t].dependencies[i].cls = "Dependency"
              => tasks[t].dependencies[i].type \in allowed_types
    /\ (last.op = "add_dependency" /\ last.arg.type \notin allowed_types)
          => (last.exc = "NotAllowedType" /\ tasks = last.pre)
    /\ (last.op = "load_dependencies"
            /\ \E p \in LoadedRecords :
                  last.pre[p[1]].dependencies[p[2]].type \notin allowed_types)
          => last.exc \in {"NotAllowedType", "NotFound"}

C5_Witness ==
    /\ last.op = "load_dependencies"
    /\ last.exc = "NotAllowedType"
    /\ \E p \in LoadedRecords :
          /\ last.pre[p[1]].dependencies[p[2]].type = "loopsAround"
          /\ tasks[p[1]].dependencies[p[2]].cls = "dict"

\* after load_dependencies has returned every entry of the working set is a
\* Dependency, and one made from a record targets a task of the working set
\* whose key is the record's, with the record's type
LoadedLinked ==
    (last.op = "load_dependencies" /\ last.exc = "ok") =>
        /\ \A t \in SeqToSet(LoadedSet) : \A i \in DOMAIN tasks[t].dependencies :
              tasks[t].dependencies[i].cls = "Dependency"
        /\ \A p \in LoadedRecords :
              /\ tasks[p[1]].dependencies[p[2]].task \in SeqToSet(LoadedSet)
              /\ TaskKey(last.pre, tasks[p[1]].dependencies[p[2]].task)
                    = last.pre[p[1]].dependencies[p[2]].key
              /\ tasks[p[1]].dependencies[p[2]].type
                    = last.pre[p[1]].dependencies[p[2]].type

\* a record of the working set names a key no task of the working set has
LoadedMissing ==
    /\ last.op = "load_dependencies"
    /\ \E p \in LoadedRecords :
          WhereKey(LoadedIds, last.pre[p[1]].dependencies[p[2]].key) = {}

\* C10 as stated: after load_dependencies returns the entries are linked,
\* whatever the order of the list; if a record's key is that of no task in
\* the working set the call fails with the dependency-not-found error.
C10_Original ==
    /\ LoadedLinked
    /\ LoadedMissing => last.exc = "NotFound"

\* C10 amended: after load_dependencies returns the entries are linked,
\* whatever the order of the list; if a record's key is that of no task in
\* the working set the call fails, with the dependency-not-found error
\* unless the working set holds a record of a kind that is not allowed, in
\* which case the failure may be that of the Dependency's construction.
C10_LinkPhase ==
    /\ LoadedLinked
    /\ LoadedMissing =>
          /\ last.exc \in {"NotFound", "NotAllowedType"}
          /\ (\A p \in LoadedRecords :
                 last.pre[p[1]].dependencies[p[2]].type \in allowed_types)
                => last.exc = "NotFound"

C10_Witness ==
    /\ last.op = "load_dependencies"
    /\ last.exc = "ok"
    /\ Len(last.arg) = 3
    /\ \E p, q \in LoadedRecords :
          /\ p[1] = last.arg[1]
          /\ q[1] = last.arg[2]
          /\ tasks[p[1]].dependencies[p[2]].task = last.arg[2]
          /\ tasks[q[1]].dependencies[q[2]].task = last.arg[3]

-----------------------------------------------------------------------------
(* Claims about entries that were never linked (SpecAbort) *)

\* the tasks whose update a call on t enters, in the order it enters them
Traversal(T, t, update_children) ==
    IF update_children
    THEN <<t>> \o unpack_children_with_levels(T, t, 0).ctasks
    ELSE <<t>>

\* u holds a dependency entry that is a record naming a task
HoldsRecord(T, u) ==
    \E i \in DOMAIN T[u].dependencies : T[u].dependencies[i].cls = "dict"

\* the places of the traversal at which a task holds a record
RecordPlaces(c) ==
    {k \in DOMAIN Traversal(c.pre, c.task, c.arg.update_children) :
        HoldsRecord(c.pre, Traversal(c.pre, c.task, c.arg.update_children)[k])}

-----------------------------------------------------------------------------
(* Claims about the running call (SpecSteps) *)

\* the call of the latest Enter is over
CallOver == last.op = "update_from_dependencies (steps)" /\ Stack = <<>>

\* while the call runs no task's update has been entered twice, and the
\* updates entered are the first ones of the traversal; once it has returned
\* every task of the traversal was entered exactly once and the tasks are as
\* update_from_dependencies leaves them
EnteredOnce ==
    last.op = "update_from_dependencies (steps)" =>
        LET trav == Traversal(last.pre, last.task, last.arg.update_children)
            whole == update_from_dependencies(last.pre, last.task,
                         last.arg.verify, last.arg.update_children)
        IN
        /\ Len(Entered) <= Len(trav)
        /\ Entered = SubSeq(trav, 1, Len(Entered))
        /\ Cardinality(SeqToSet(Entered)) = Len(Entered)
        /\ SeqToSet(Entered) \subseteq {last.task} \cup Descendants(last.pre, last.task)
        /\ CallOver => (last.exc = whole.exc /\ tasks = whole.T)
        /\ (CallOver /\ last.exc \in {"ok", "Overdefined", "Underdefined"})
              => Entered = trav

\* C19: update_from_dependencies on a finite task tree terminates for every
\* dependency graph over its tasks, dependencies on each other and on the
\* own parent or child included: every call that is entered is over after
\* finitely many steps, the recursion enters only the task and its
\* descendants, and each of them exactly once in a call that runs through.
C19_Terminates ==
    /\ []EnteredOnce
    /\ InCall ~> CallOver

\* the dependencies of a task and of its child on each other
C19_Witness ==
    /\ CallOver
    /\ last.exc = "ok"
    /\ last.arg.update_children
    /\ Entered = <<1, 2, 3>>
    /\ \E i \in DOMAIN last.pre[1].dependencies :
          last.pre[1].dependencies[i].task = 2
    /\ \E i \in DOMAIN last.pre[2].dependencies :
          last.pre[2].dependencies[i].task = 1
    /\ tasks # last.pre

-----------------------------------------------------------------------------
(* Claims about reading the progress (SpecProgress) *)

\* the percent of t with nothing stored in t: the rounded mean of what the
\* children resolve to, which is nan below a task without children
RECURSIVE DerivedPercent(_, _)
DerivedPercent(T, t) ==
    IF T[t].progress.percent # None THEN T[t].progress.percent
    ELSE np_round_mean([i \in DOMAIN T[t].children |->
                           DerivedPercent(T, T[t].children[i])])

\* C21: reading a task's progress is a pure query: the read (by the property
\* or by _get_as_lists) changes no task; when the stored percent is absent
\* the returned percent is derived from the children and the stored progress
\* stays absent; a read that follows a change of a child's percent returns
\* the percent derived from the children's new values.
C21_PureQuery ==
    /\ last.op \in {"progress", "_get_as_lists"} => tasks = last.pre
    /\ (last.op = "progress" /\ last.pre[last.task].progress.percent = None)
          => /\ last.ret.percent = DerivedPercent(last.pre, last.task)
             /\ tasks[last.task].progress.percent = None
    /\ (/\ last.op = "progress"
        /\ last.prior # <<>>
        /\ last.prior.prior.task = last.task
        /\ last.prior.prior.pre[last.task].progress.percent = None
        /\ last.prior.task \in SeqToSet(tasks[last.task].children))
          => last.ret.percent
                = DerivedPercent(
                      [last.pre EXCEPT ![last.task].progress.percent = None],
                      last.task)

-----------------------------------------------------------------------------
(* Claims about duration texts (SpecText) *)

\* C11: a duration text parsed at Task construction and serialized with the
\* encoder comes back character for character, and the serialized text can
\* be parsed back.
C11_RoundTrip ==
    /\ last.op = "dumps" => last.ret = last.arg
    /\ (last.op = "Task" /\ last.prior # <<>>) => last.exc = "ok"

\* the texts of two days or more whose minutes and seconds are written with
\* two digits come back as they were and can be parsed back
C11_PaddedRoundTrip ==
    /\ (last.op = "dumps"
            /\ tasks[last.task].duration.v >= 2 * 86400
            /\ Len(last.arg) = Len(last.ret))
          => last.ret = last.arg
    /\ (last.op = "Task" /\ last.prior # <<>>
            /\ last.pre[last.task].duration.v >= 2 * 86400)
          => last.exc = "ok"

====
